---- MODULE Spec2Model ----
(***************************************************************************)
(* Model of the methcla realtime engine: the reference counted Request,    *)
(* the stable Scheduler, Environment::process with its request and         *)
(* scheduler drains (engine/src/Methcla/Audio/Engine.cpp) and the epoch    *)
(* tagged bus access of AudioInputConnection / AudioOutputConnection       *)
(* (engine/src/Mescaline/Audio/Synth.hpp).                                 *)
(*                                                                         *)
(* Time is counted in sample frames (sampleRate = 1 frame per time unit),  *)
(* so that numFrames / sampleRate() is numFrames.                          *)
(***************************************************************************)
EXTENDS Integers, Sequences, FiniteSets, TLC

\* ------------------------------------------------------------------ bounds
\* Number of packets the client sends in one behaviour.
MaxSends == 3
\* Number of process() calls in one behaviour.
MaxBlocks == 2
\* Capacity of the scheduler (m_maxSize; the program uses kQueueSize here).
MaxSchedulerSize == 2
\* Number of connection writes and reads in one block of the bus harness.
MaxBusOps == 3
\* Capacity of the node registry (Options::maxNumNodes).
MaxNumNodes == 3
\* Capacity of the request queue (the program uses kQueueSize here).
MaxRequestQueue == 2
\* Options::blockSize, the length of a bus buffer.
BlockSize == 2

\* ------------------------------------------------------------- OSC packets
\* A packet is a message or a bundle of packets; both have the same fields.
\* A message carries its address, a node id, two integer arguments (target
\* id or index, bus id or value) and a synth definition name.
Msg(addr, node, x, y, def) ==
    [bundle |-> FALSE, time |-> 0, elems |-> <<>>,
     addr |-> addr, node |-> node, x |-> x, y |-> y, def |-> def]

Bundle(t, es) ==
    [bundle |-> TRUE, time |-> t, elems |-> es,
     addr |-> "#bundle", node |-> 0, x |-> 0, y |-> 0, def |-> ""]

\* The OSC time value that means "immediate".
kImmediate == 1

\* Names of the synth definitions a client may ask for; only the first is
\* registered.
RegisteredDefs == {"sine"}
\* The URIs a definition may be registered under, and the definitions a
\* plugin may hand to registerSynthDef.
Uris == {"sine", "saw"}
Defs == {"d1", "d2"}

SynthNew(n)  == Msg("/synth/new", n, 0, 0, "sine")
NodeFree(n)  == Msg("/node/free", n, 0, 0, "")
NodeSet(n)   == Msg("/node/set", n, 0, 1, "")
\* A group with id n created in the root group.
GroupNew(n)  == Msg("/group/new", n, 0, 0, "")
\* Input or output 0 of synth n mapped to audio bus b.
MapInput(n, b)  == Msg("/synth/map/input", n, 0, b, "")
MapOutput(n, b) == Msg("/synth/map/output", n, 0, b, "")
\* /synth/new with the name of a definition that is not registered.
SynthNewBad(n) == Msg("/synth/new", n, 0, 0, "saw")

\* The packets the client chooses from: a bare message, an immediate
\* bundle, bundles scheduled for times 2 and 3, and a bundle whose time
\* has passed when it arrives.
Packets ==
    { SynthNew(1),
      Bundle(kImmediate, <<SynthNew(2)>>),
      Bundle(2, <<SynthNew(1)>>),
      Bundle(3, <<SynthNew(2)>>),
      Bundle(0, <<NodeFree(1)>>) }

\* The packets of a client whose messages fail: an immediate bundle whose
\* first message fails in the timed phase, and a scheduled bundle whose
\* first message fails in both phases.
ErrPackets ==
    { Bundle(kImmediate, <<NodeSet(1), SynthNew(2)>>),
      Bundle(3, <<SynthNewBad(1), SynthNew(2)>>) }

\* The packets of a client that creates, maps, sets and frees node 1 and
\* tries to free the root: a scheduled and an immediate creation, the two
\* frees followed by a message to the freed node, and the messages that
\* address node 1 in the timed phase.
NodePackets ==
    { SynthNew(1),
      Bundle(3, <<SynthNew(1)>>),
      Bundle(kImmediate, <<NodeFree(0), NodeFree(1), NodeSet(1)>>),
      Bundle(kImmediate, <<NodeSet(1), MapInput(1, 1), MapOutput(1, 3)>>) }

\* The packets of a client that times its requests: a bundle for the start
\* of the first block that holds a bundle for a later time, an immediate
\* bundle, bare messages, and a bundle for the end of the second block.
TimePackets ==
    { Bundle(0, <<Bundle(3, <<SynthNew(1)>>)>>),
      Bundle(kImmediate, <<SynthNew(2)>>),
      SynthNew(1),
      GroupNew(2),
      Bundle(4, <<SynthNew(2)>>) }

\* The packets of a client that sends bundles for later times only.
LivePackets ==
    { Bundle(3, <<SynthNew(1)>>),
      Bundle(4, <<SynthNew(2)>>) }

\* The packets of a client that asks for synths of both definition names,
\* at once and for a later time.
DefPackets == { SynthNew(1), Bundle(2, <<SynthNewBad(2)>>) }

\* The packets of the client whose send() overlaps the audio thread.
RacePackets ==
    { SynthNew(1),
      Bundle(2, <<SynthNew(1)>>) }

\* ------------------------------------------------------------------- state
VARIABLES
    \* client thread (Environment::send)
    cpc,        \* "idle" | "release": the temporary Request is being destroyed
    cpkt,       \* the packet the temporary Request refers to
    ctmp,       \* m_refs as read by the client's release(), -1 before the read
    \* packets allocated so far, indexed by allocation order
    pcat,       \* the packet's bytes
    refs,       \* Data::m_refs
    freeCmds,   \* number of perform_free_data commands issued for the packet
    freed,      \* number of times the worker has freed the packet's storage
    \* request queue (client -> audio thread)
    rq,
    \* audio thread
    pc,         \* position inside Environment::process
    calls,      \* number of process() calls started
    curTime, numFrames,
    epoch,      \* EnvironmentImpl::m_epoch
    local,      \* the Request local to processRequests (0: empty handle)
    sched,      \* Scheduler::m_queue: set of [time, cnt, pkt]
    schedCnt,   \* the stability counter of the priority queue
    nodes,      \* Environment::m_nodes
    \* worker channel
    toWorker, fromWorker,
    replies,    \* packets handed to the client's packet handler
    synthDefs,  \* Environment::m_synthDefs: the definition registered for a URI
    doneAfter,  \* the DoneAfter synth: its fields and the history of its calls
    \* history
    log,        \* calls of the request queue's and the scheduler's handlers
    mlog,       \* calls of processMessage, one entry per message and phase
    \* audio buses
    busData, busEpoch,
    written,    \* buses written during the current block
    mix,        \* sample-wise sum of what was written to a bus in this block
    busOps,     \* connection operations done in this block
    lastWrite, lastRead

vars == <<cpc, cpkt, ctmp, pcat, refs, freeCmds, freed, rq, pc, calls, curTime,
          numFrames, epoch, local, sched, schedCnt, nodes, toWorker, fromWorker,
          replies, synthDefs, doneAfter, log, mlog, busData, busEpoch, written, mix,
          busOps,
          lastWrite, lastRead>>

clientVars == <<cpc, cpkt, ctmp>>
busVars == <<busData, busEpoch, written, mix, busOps, lastWrite, lastRead>>

\* ---------------------------------------------------------------- Request
\* The part of the state the audio thread's handlers thread through their
\* calls, with the return value of the structural phase (need), the request
\* being handled (req) and the OSC time of the bundle being walked (inner).
AudioState ==
    [refs |-> refs, freeCmds |-> freeCmds, toWorker |-> toWorker,
     nodes |-> nodes, log |-> log, mlog |-> mlog, sched |-> sched,
     schedCnt |-> schedCnt, need |-> FALSE, req |-> 0, inner |-> 0]

Command(f, pkt, msg, by) == [f |-> f, pkt |-> pkt, msg |-> msg, by |-> by]

\* Request::retain. The handle 0 is the empty Request (m_data == nullptr).
Retain(s, p) ==
    IF p = 0 THEN s ELSE [s EXCEPT !.refs[p] = @ + 1]

\* Request::release, called on thread `by`. m_refs is a size_t: decrementing
\* 0 wraps to a value that is not 0, as -1 is here.
Release(s, p, by) ==
    IF p = 0 THEN s
    ELSE IF s.refs[p] - 1 = 0
         THEN [s EXCEPT !.refs[p] = 0,
                        !.freeCmds[p] = @ + 1,
                        !.toWorker = Append(@, Command("free_data", p, "", by))]
         ELSE [s EXCEPT !.refs[p] = @ - 1]

\* A reply bug: the error is dropped.
ReplyErrorDropped(s, msg) == s

\* Environment::replyError: the error data goes to the worker, which
\* formats the reply.
ReplyError(s, msg) ==
    [s EXCEPT !.toWorker = Append(@, Command("response_error", 0, msg, "audio"))]

Event(ev, req, t, node, blk) ==
    [ev |-> ev, req |-> req, time |-> t, node |-> node, blk |-> blk]

\* The message replyError was called with while s became t, "" if it was
\* not called.
Failure(s, t) ==
    IF Len(t.toWorker) > Len(s.toWorker)
    THEN t.toWorker[Len(t.toWorker)].msg
    ELSE ""

\* One call of processMessage in phase ph ("A" structural, "B" timed) for
\* message m of request req in block blk: the times it was called with, the
\* OSC time of the bundle holding m, the type of the addressed node before
\* the call ("none": absent), the error it replied, whether it left the
\* nodes as they were, and whether the addressed node is absent afterwards.
MEvent(ph, req, blk, m, scheduleTime, currentTime, s, t) ==
    [ph |-> ph, req |-> req, blk |-> blk, addr |-> m.addr, node |-> m.node,
     x |-> m.x, time |-> scheduleTime, cur |-> currentTime, nf |-> numFrames,
     inner |-> s.inner,
     was |-> (IF m.node \in DOMAIN s.nodes THEN s.nodes[m.node].type ELSE "none"),
     err |-> Failure(s, t), kept |-> (t.nodes = s.nodes),
     gone |-> (IF m.node \in DOMAIN t.nodes
               THEN t.nodes[m.node].type = "none" ELSE TRUE)]

\* ---------------------------------------------------------- node registry
NodeIds == 0 .. 2
kRootId == 0
\* Number of control inputs of a synth of the registered definition.
NumControlInputs == 1

\* Number of audio inputs and of audio outputs of such a synth.
NumAudioInputs == 1
NumAudioOutputs == 1
\* The bus id of a connection that is mapped to no bus.
kNoBus == 0

\* A node: its type, how often and with which sample offset it was
\* activated, its control input and the buses its input and output are
\* mapped to.
NoNode ==
    [type |-> "none", acts |-> 0, offset |-> 0, ctl |-> 0,
     inp |-> kNoBus, out |-> kNoBus]
NewNode(type) ==
    [type |-> type, acts |-> 0, offset |-> 0, ctl |-> 0,
     inp |-> kNoBus, out |-> kNoBus]

\* m_nodes.lookup(id).get(): the node's type, "none" for nullptr.
Lookup(ns, id) == IF id \in NodeIds THEN ns[id].type ELSE "none"

Contains(ns, id) == Lookup(ns, id) # "none"

NumNodes(ns) == Cardinality({i \in NodeIds : ns[i].type # "none"})

\* nodes().insert refuses a duplicate id and a full registry.
CanInsert(ns, id) ==
    /\ id \in NodeIds
    /\ ns[id].type = "none"
    /\ NumNodes(ns) < MaxNumNodes

\* Environment::synthDef(uri): the definition found for the URI, "none"
\* where the code throws "Synth definition not found".
synthDef(uri) == IF uri \in Uris THEN synthDefs[uri] ELSE "none"

\* --------------------------------------------------------------- dispatch
\* Environment::processMessage(msg), the structural phase. s.need collects
\* the return values (needsScheduling |= ...).
PhaseAMessage(s, m) ==
    LET t ==
          IF m.addr = "/group/new"
          THEN IF Lookup(s.nodes, m.x) = "none"
               THEN [ReplyError(s, "NodeIdError") EXCEPT !.need = TRUE]
               ELSE IF ~CanInsert(s.nodes, m.node)
                    THEN [ReplyError(s, "insert") EXCEPT !.need = TRUE]
                    ELSE [s EXCEPT !.nodes[m.node] = NewNode("group")]
          ELSE IF m.addr = "/synth/new"
          THEN IF synthDef(m.def) = "none"
               THEN [ReplyError(s, "Synth definition not found") EXCEPT !.need = TRUE]
               ELSE IF Lookup(s.nodes, m.x) = "none"
                    THEN [ReplyError(s, "NodeIdError") EXCEPT !.need = TRUE]
                    ELSE IF ~CanInsert(s.nodes, m.node)
                         THEN [ReplyError(s, "insert") EXCEPT !.need = TRUE]
                         ELSE [s EXCEPT !.nodes[m.node] = NewNode("synth"),
                                        !.need = TRUE]
          ELSE [s EXCEPT !.need = TRUE]
    IN  [t EXCEPT !.mlog = Append(@, MEvent("A", s.req, calls, m, 0, curTime, s, t))]

RECURSIVE PhaseAPackets(_, _, _)
\* Environment::processBundle(bundle) over the packets es[i..].
PhaseAPackets(s, es, i) ==
    IF i > Len(es) THEN s
    ELSE LET p == es[i]
             t == IF p.bundle THEN PhaseAPackets(s, p.elems, 1)
                              ELSE PhaseAMessage(s, p)
         IN  PhaseAPackets(t, es, i + 1)

\* The catch clauses of the timed phase: the error is replied, and the
\* history notes which request's message failed.
FailB(s, msg, m, scheduleTime, req, blk) ==
    [ReplyError(s, msg) EXCEPT
       !.log = Append(@, Event("errB", req, scheduleTime, m.node, blk))]

\* A dispatch bug: /node/free takes every node for the root node.
IsRootNodeAlways(id) == TRUE

\* A dispatch bug: /node/free does not check for the root node.
IsRootNodeNever(id) == FALSE

\* nodeId == rootNode()->id()
IsRootNode(id) == id = kRootId

\* A validation bug: only the upper end of the index range is tested.
IndexOutOfRangeUpperOnly(index, n) == index >= n

\* (index < 0) || (index >= (int32_t)synth->numControlInputs()), and the same
\* test against numAudioInputs() and numAudioOutputs().
IndexOutOfRange(index, n) == index < 0 \/ index >= n

\* Environment::processMessage(msg, scheduleTime, currentTime), the timed
\* phase, run for request req in block blk.
PhaseBMessage(s, m, scheduleTime, currentTime, req, blk) ==
    LET t ==
          IF m.addr = "/synth/new"
          THEN IF Lookup(s.nodes, m.node) = "none"
               THEN FailB(s, "NodeIdError", m, scheduleTime, req, blk)
               ELSE IF Lookup(s.nodes, m.node) # "synth"
                    THEN FailB(s, "NodeTypeError", m, scheduleTime, req, blk)
                    ELSE [s EXCEPT
                            !.nodes[m.node].acts = @ + 1,
                            !.nodes[m.node].offset = scheduleTime - currentTime,
                            !.log = Append(@, Event("act", req, scheduleTime, m.node, blk))]
          ELSE IF m.addr = "/node/free"
          THEN IF ~Contains(s.nodes, m.node)
               THEN FailB(s, "NodeIdError", m, scheduleTime, req, blk)
               ELSE IF IsRootNode(m.node)
                    THEN FailB(s, "NodeIdError", m, scheduleTime, req, blk)
                    ELSE [s EXCEPT !.nodes[m.node] = NoNode]
          ELSE IF m.addr = "/node/set"
          THEN IF Lookup(s.nodes, m.node) = "none"
               THEN FailB(s, "NodeIdError", m, scheduleTime, req, blk)
               ELSE IF Lookup(s.nodes, m.node) # "synth"
                    THEN FailB(s, "NodeTypeError", m, scheduleTime, req, blk)
                    ELSE IF IndexOutOfRange(m.x, NumControlInputs)
                         THEN FailB(s, "Control input index out of range", m,
                                    scheduleTime, req, blk)
                         ELSE [s EXCEPT !.nodes[m.node].ctl = m.y]
          ELSE IF m.addr = "/synth/map/input"
          THEN IF Lookup(s.nodes, m.node) = "none"
               THEN FailB(s, "NodeIdError", m, scheduleTime, req, blk)
               ELSE IF Lookup(s.nodes, m.node) # "synth"
                    THEN FailB(s, "NodeTypeError", m, scheduleTime, req, blk)
                    ELSE IF IndexOutOfRange(m.x, NumAudioInputs)
                         THEN FailB(s, "Synth input index out of range", m,
                                    scheduleTime, req, blk)
                         ELSE [s EXCEPT !.nodes[m.node].inp = m.y]
          ELSE IF m.addr = "/synth/map/output"
          THEN IF Lookup(s.nodes, m.node) = "none"
               THEN FailB(s, "NodeIdError", m, scheduleTime, req, blk)
               ELSE IF Lookup(s.nodes, m.node) # "synth"
                    THEN FailB(s, "NodeTypeError", m, scheduleTime, req, blk)
                    ELSE IF IndexOutOfRange(m.x, NumAudioOutputs)
                         THEN FailB(s, "Synth output index out of range", m,
                                    scheduleTime, req, blk)
                         ELSE [s EXCEPT !.nodes[m.node].out = m.y]
          ELSE s
    IN  [t EXCEPT !.mlog = Append(@, MEvent("B", req, blk, m, scheduleTime,
                                            currentTime, s, t))]

RECURSIVE PhaseBPackets(_, _, _, _, _, _, _)
\* A dispatch bug: a failing message ends the dispatch of its bundle.
PhaseBPacketsAbort(s, es, i, scheduleTime, currentTime, req, blk) ==
    IF i > Len(es) THEN s
    ELSE LET p == es[i]
             t == IF p.bundle
                  THEN PhaseBPackets(s, p.elems, 1, scheduleTime, currentTime, req, blk)
                  ELSE PhaseBMessage(s, p, scheduleTime, currentTime, req, blk)
         IN  IF Failure(s, t) # "" THEN t
             ELSE PhaseBPackets(t, es, i + 1, scheduleTime, currentTime, req, blk)

\* Environment::processBundle(bundle, scheduleTime, currentTime) over the
\* packets es[i..]; nested bundles are flattened.
PhaseBPackets(s, es, i, scheduleTime, currentTime, req, blk) ==
    IF i > Len(es) THEN s
    ELSE LET p == es[i]
             t == IF p.bundle
                  THEN [PhaseBPackets([s EXCEPT !.inner = p.time], p.elems, 1,
                                      scheduleTime, currentTime, req, blk)
                          EXCEPT !.inner = s.inner]
                  ELSE PhaseBMessage(s, p, scheduleTime, currentTime, req, blk)
         IN  PhaseBPackets(t, es, i + 1, scheduleTime, currentTime, req, blk)

\* Phase B of a whole packet, as processRequests (ev = "Bi") and
\* processScheduler (ev = "Bs") call it, with the history event of the call.
PhaseB(s, p, scheduleTime, currentTime, req, blk, ev) ==
    LET t == [s EXCEPT !.log = Append(@, Event(ev, req, scheduleTime, 0, blk)),
                       !.inner = IF p.bundle THEN p.time ELSE kImmediate]
    IN  IF p.bundle
        THEN PhaseBPackets(t, p.elems, 1, scheduleTime, currentTime, req, blk)
        ELSE PhaseBMessage(t, p, scheduleTime, currentTime, req, blk)

\* -------------------------------------------------------------- Scheduler
\* methcla_time_from_uint64: the OSC time value in the engine's time unit.
methcla_time_from_uint64(t) == t

\* A scheduler bug: ScheduleItem::operator< compares time() < other.time().
BeforeLatestFirst(a, b) ==
    \/ a.time > b.time
    \/ a.time = b.time /\ a.cnt < b.cnt

\* A scheduler bug: the queue is not stable, the newest of equal times wins.
BeforeNewestFirst(a, b) ==
    \/ a.time < b.time
    \/ a.time = b.time /\ a.cnt > b.cnt

\* The stable priority queue's order: smaller time first (operator<
\* compares time() > other.time()), then smaller stability count.
Before(a, b) ==
    \/ a.time < b.time
    \/ a.time = b.time /\ a.cnt < b.cnt

\* m_queue.top()
Top(q) == CHOOSE a \in q : \A b \in q \ {a} : Before(a, b)

\* A scheduler bug: push compares m_queue.size() <= m_maxSize.
SchedulerPushOneMore(s, time, p) ==
    IF Cardinality(s.sched) <= MaxSchedulerSize
    THEN [Retain(s, p) EXCEPT
            !.sched = @ \cup {[time |-> time, cnt |-> s.schedCnt, pkt |-> p]},
            !.schedCnt = @ + 1,
            !.log = Append(@, Event("push", p, time, 0, calls)),
            !.need = FALSE]
    ELSE [s EXCEPT !.need = TRUE]

\* Scheduler::push; s.need tells whether it threw "Scheduler queue overflow".
SchedulerPush(s, time, p) ==
    IF Cardinality(s.sched) < MaxSchedulerSize
    THEN [Retain(s, p) EXCEPT
            !.sched = @ \cup {[time |-> time, cnt |-> s.schedCnt, pkt |-> p]},
            !.schedCnt = @ + 1,
            !.log = Append(@, Event("push", p, time, 0, calls)),
            !.need = FALSE]
    ELSE [s EXCEPT !.need = TRUE]

\* A scheduler bug: pop() leaves the item in the queue.
SchedulerPopNothing(s) == s

\* Scheduler::pop: the top item and its Request are destroyed.
SchedulerPop(s) ==
    Release([s EXCEPT !.sched = @ \ {Top(@)}], Top(s.sched).pkt, "audio")

\* ------------------------------------------------------------------- buses
\* One external input, one external output and one internal bus.
Buses == {"in", "out", "bus"}
Frames == 1 .. BlockSize
Silence == [i \in Frames |-> 0]
Ramp == [i \in Frames |-> i]
Ones == [i \in Frames |-> 1]

\* A constructor bug: the buses start with epoch().
InitBusEpochCurrent == 1 - 1

\* Environment::Environment: every bus starts with epoch() - 1.
InitBusEpoch == 0 - 1

\* ------------------------------------------------------------- DoneAfter
\* m_numFramesLeft is a double and the option m_seconds a float: the model
\* holds both as whole numbers of 1/FramesScale (frames, seconds), so that
\* seconds * sampleRate need not be a whole number of frames.
FramesScale == 2

\* No DoneAfter synth has been constructed.
NoDoneAfter ==
    [made |-> FALSE, m_numFramesLeft |-> 0, m_done |-> FALSE,
     target |-> 0, frames |-> <<>>, dones |-> <<>>]

\* -------------------------------------------------------------------- Init
Init ==
    /\ cpc = "idle" /\ cpkt = 0 /\ ctmp = 0
    /\ pcat = <<>> /\ refs = <<>> /\ freeCmds = <<>> /\ freed = <<>>
    /\ rq = <<>>
    /\ pc = "idle" /\ calls = 0 /\ curTime = 0 /\ numFrames = 0
    /\ epoch = 0
    /\ local = 0
    /\ sched = {} /\ schedCnt = 0
    /\ nodes = [i \in NodeIds |-> IF i = kRootId THEN NewNode("group") ELSE NoNode]
    /\ toWorker = <<>> /\ fromWorker = <<>> /\ replies = <<>>
    /\ synthDefs = [u \in Uris |-> IF u \in RegisteredDefs THEN "d1" ELSE "none"]
    /\ doneAfter = NoDoneAfter
    /\ log = <<>> /\ mlog = <<>>
    /\ busData = [b \in Buses |-> Silence]
    /\ busEpoch = [b \in Buses |-> InitBusEpoch]
    /\ written = {}
    /\ mix = [b \in Buses |-> Silence]
    /\ busOps = 0
    /\ lastWrite = <<>> /\ lastRead = <<>>

\* ----------------------------------------------------------- client thread
\* Environment::send without a step of another thread in between: the
\* temporary Request is constructed (m_refs = 1), copied into the queue's
\* slot unless the queue is full, and destroyed.
SendUpTo(p, limit) ==
    /\ cpc = "idle"
    /\ Len(pcat) < limit
    /\ LET id == Len(pcat) + 1
           ok == Len(rq) < MaxRequestQueue
           s == [AudioState EXCEPT !.refs = Append(refs, IF ok THEN 2 ELSE 1),
                                   !.freeCmds = Append(freeCmds, 0)]
           t == Release(s, id, "client")
       IN  /\ pcat' = Append(pcat, p)
           /\ refs' = t.refs
           /\ freeCmds' = t.freeCmds
           /\ toWorker' = t.toWorker
           /\ freed' = Append(freed, 0)
           /\ rq' = IF ok THEN Append(rq, id) ELSE rq
    /\ UNCHANGED <<clientVars, pc, calls, curTime, numFrames, epoch, local, sched,
                   schedCnt, nodes, fromWorker, replies, synthDefs, doneAfter, log, mlog, busVars>>

\* The client sends at most MaxSends packets.
Send(p) == SendUpTo(p, MaxSends)

\* Environment::send up to the return of m_requests.send: the temporary
\* Request is constructed (m_refs = 1) and, unless the queue is full, copied
\* into the queue's slot. The temporary is destroyed afterwards.
SendEnqueue(p) ==
    /\ cpc = "idle"
    /\ Len(pcat) < MaxSends
    /\ LET id == Len(pcat) + 1
           ok == Len(rq) < MaxRequestQueue
       IN  /\ pcat' = Append(pcat, p)
           /\ refs' = Append(refs, IF ok THEN 2 ELSE 1)
           /\ freeCmds' = Append(freeCmds, 0)
           /\ freed' = Append(freed, 0)
           /\ rq' = IF ok THEN Append(rq, id) ELSE rq
           /\ cpkt' = id
    /\ cpc' = "read"
    /\ UNCHANGED <<ctmp, pc, calls, curTime, numFrames, epoch, local, sched,
                   schedCnt, nodes, toWorker, fromWorker, replies, synthDefs, doneAfter, log, mlog, busVars>>

\* ~Request of the temporary, on the client thread: release() reads m_refs
\* (m_refs-- is not atomic) ...
ClientReleaseRead ==
    /\ cpc = "read"
    /\ ctmp' = refs[cpkt]
    /\ cpc' = "write"
    /\ UNCHANGED <<cpkt, pcat, refs, freeCmds, freed, rq, pc, calls, curTime,
                   numFrames, epoch, local, sched, schedCnt, nodes, toWorker,
                   fromWorker, replies, synthDefs, doneAfter, log, mlog, busVars>>

\* ... and writes it back decremented; at 0 the client thread calls
\* sendToWorker.
ClientReleaseWrite ==
    /\ cpc = "write"
    /\ LET s == Release([AudioState EXCEPT !.refs[cpkt] = ctmp], cpkt, "client")
       IN  /\ refs' = s.refs
           /\ freeCmds' = s.freeCmds
           /\ toWorker' = s.toWorker
    /\ cpc' = "idle"
    /\ UNCHANGED <<cpkt, ctmp, pcat, freed, rq, pc, calls, curTime, numFrames,
                   epoch, local, sched, schedCnt, nodes, fromWorker, replies, synthDefs, doneAfter,
                   log, mlog, busVars>>

\* ----------------------------------------------------------- worker thread
\* The worker performs the next command of its inbound queue:
\* Request::perform_free_data frees the packet, perform_response_error
\* hands the /error packet to the client and returns the error data to the
\* audio thread for perform_rt_free.
WorkerPerform ==
    /\ toWorker # <<>>
    /\ LET c == Head(toWorker)
       IN  /\ toWorker' = Tail(toWorker)
           /\ IF c.f = "free_data"
              THEN /\ freed' = [freed EXCEPT ![c.pkt] = @ + 1]
                   /\ UNCHANGED <<replies, fromWorker>>
              ELSE /\ replies' = Append(replies,
                                         [addr |-> "/error",
                                          requestId |-> "Notification",
                                          message |-> c.msg])
                   /\ fromWorker' = Append(fromWorker,
                                            Command("rt_free", 0, c.msg, "worker"))
                   /\ UNCHANGED freed
    /\ UNCHANGED <<clientVars, pcat, refs, freeCmds, rq, pc, calls, curTime,
                   numFrames, epoch, local, sched, schedCnt, nodes, synthDefs,
                   doneAfter, log, mlog, busVars>>

\* ------------------------------------------------- synth definitions
\* Environment::registerSynthDef(def) for a definition d whose uri() is
\* uri: m_synthDefs[uri] = d.
RegisterSynthDef(uri, d) ==
    /\ synthDefs' = [synthDefs EXCEPT ![uri] = d]
    /\ UNCHANGED <<clientVars, pcat, refs, freeCmds, freed, rq, pc, calls,
                   curTime, numFrames, epoch, local, sched, schedCnt, nodes,
                   toWorker, fromWorker, replies, doneAfter, log, mlog, busVars>>

\* ------------------------------------------------------------ audio thread
\* What a read of packet p's storage yields: its bytes, or anything once the
\* worker has freed the storage.
Content(p) == IF freed[p] > 0 THEN Packets ELSE {pcat[p]}

\* What a read of m_refs yields; anything once the storage is freed.
RefsSeen(p) == IF freed[p] > 0 THEN {refs[p], 1, 2} ELSE {refs[p]}

\* The audio thread's part of the state after a handler ran to state s.
AudioEffect(s) ==
    /\ refs' = s.refs
    /\ freeCmds' = s.freeCmds
    /\ toWorker' = s.toWorker
    /\ nodes' = s.nodes
    /\ log' = s.log
    /\ mlog' = s.mlog
    /\ sched' = s.sched
    /\ schedCnt' = s.schedCnt

\* An engine bug: process() runs the scheduler before the request queue.
StageAfterSchedulerFirst(stage) ==
    IF stage = "begin" THEN "scheduler"
    ELSE IF stage = "scheduler" THEN "requests"
    ELSE "worker"

\* The order of Environment::process: processRequests, processScheduler,
\* then the worker's commands.
StageAfter(stage) ==
    IF stage = "begin" THEN "requests"
    ELSE IF stage = "requests" THEN "scheduler"
    ELSE "worker"

\* An engine bug: the epoch does not advance.
NextEpochSame(e) == e

\* m_impl->m_epoch++
NextEpoch(e) == e + 1

\* Environment::process is entered with currentTime and numFrames; blocks
\* follow each other without gaps.
ProcessBegin(nf) ==
    /\ pc = "idle"
    /\ calls < MaxBlocks
    /\ calls' = calls + 1
    /\ curTime' = curTime + numFrames
    /\ numFrames' = nf
    /\ pc' = StageAfter("begin")
    /\ UNCHANGED <<clientVars, pcat, refs, freeCmds, freed, rq, epoch, local,
                   sched, schedCnt, nodes, toWorker, fromWorker, replies, synthDefs, doneAfter, log, mlog,
                   busVars>>

\* A dispatch bug: processRequests pushes every bundle into the scheduler,
\* the immediate ones too.
HandleRequestPushAll(s, r, c) ==
    LET a == [s EXCEPT !.log = Append(@, Event("A", r, 0, 0, calls)),
                       !.need = FALSE, !.req = r]
    IN  IF c.bundle
        THEN LET b == PhaseAPackets(a, c.elems, 1)
             IN  IF ~b.need THEN b
                 ELSE LET q == SchedulerPush(b, methcla_time_from_uint64(c.time), r)
                      IN  IF q.need
                          THEN [q EXCEPT !.log = Append(@, Event("overflow", r, 0, 0, calls))]
                          ELSE q
        ELSE LET b == PhaseAMessage(a, c)
             IN  IF b.need THEN PhaseB(b, c, curTime, curTime, r, calls, "Bi") ELSE b

\* Environment::processRequests for one request r with packet c, after
\* m_requests.next(request) made `request` refer to r.
HandleRequest(s, r, c) ==
    LET a == [s EXCEPT !.log = Append(@, Event("A", r, 0, 0, calls)),
                       !.need = FALSE, !.req = r]
    IN  IF c.bundle
        THEN LET b == PhaseAPackets(a, c.elems, 1)
             IN  IF ~b.need THEN b
                 ELSE IF c.time = kImmediate
                      THEN PhaseB(b, c, curTime, curTime, r, calls, "Bi")
                      ELSE LET q == SchedulerPush(b, methcla_time_from_uint64(c.time), r)
                           IN  IF q.need
                               \* caught in processRequests and written to std::cerr
                               THEN [q EXCEPT !.log = Append(@, Event("overflow", r, 0, 0, calls))]
                               ELSE q
        ELSE LET b == PhaseAMessage(a, c)
             IN  IF b.need THEN PhaseB(b, c, curTime, curTime, r, calls, "Bi") ELSE b

\* One iteration of the loop of processRequests: next() assigns the slot's
\* Request to the local one (release of the old handle, retain of the new
\* one) and drops the slot's handle; then the packet is dispatched.
ProcessRequest ==
    /\ pc = "requests"
    /\ rq # <<>>
    /\ LET r == Head(rq)
           s == Release(Retain(Release(AudioState, local, "audio"), r), r, "audio")
       IN  \E c \in Content(r) : AudioEffect(HandleRequest(s, r, c))
    /\ local' = Head(rq)
    /\ rq' = Tail(rq)
    /\ UNCHANGED <<clientVars, pcat, freed, pc, calls, curTime, numFrames, epoch,
                   fromWorker, replies, synthDefs, doneAfter, busVars>>

\* next() found the queue empty: processRequests returns and its local
\* Request is destroyed.
RequestsDone ==
    /\ pc = "requests"
    /\ rq = <<>>
    /\ AudioEffect(Release(AudioState, local, "audio"))
    /\ local' = 0
    /\ pc' = StageAfter("requests")
    /\ UNCHANGED <<clientVars, pcat, freed, rq, calls, curTime, numFrames, epoch,
                   fromWorker, replies, synthDefs, doneAfter, busVars>>

\* A dispatch bug: processScheduler is called with the start of the block.
NextTimeBlockStart == curTime

\* processScheduler's nextTime: currentTime + numFrames / sampleRate().
NextTime == curTime + numFrames

\* One iteration of the loop of processScheduler with the top item due:
\* a copy of the top Request is dispatched, the item is popped and the
\* copy destroyed.
SchedulerStep ==
    /\ pc = "scheduler"
    /\ sched # {}
    /\ Top(sched).time <= NextTime
    /\ LET it == Top(sched)
           r == it.pkt
       IN  \E c \in Content(r), m \in RefsSeen(r) :
              LET s == Retain([AudioState EXCEPT !.refs[r] = m], r)
                  b == PhaseB(s, c, it.time, curTime, r, calls, "Bs")
              IN  AudioEffect(Release(SchedulerPop(b), r, "audio"))
    /\ UNCHANGED <<clientVars, pcat, freed, rq, pc, calls, curTime, numFrames,
                   epoch, local, fromWorker, replies, synthDefs, doneAfter, busVars>>

\* The scheduler is empty or its top item is not due: processScheduler
\* returns.
SchedulerDone ==
    /\ pc = "scheduler"
    /\ IF sched = {} THEN TRUE ELSE Top(sched).time > NextTime
    /\ pc' = StageAfter("scheduler")
    /\ UNCHANGED <<clientVars, pcat, refs, freeCmds, freed, rq, calls, curTime,
                   numFrames, epoch, local, sched, schedCnt, nodes, toWorker,
                   fromWorker, replies, synthDefs, doneAfter, log, mlog, busVars>>

\* m_worker.perform() runs the commands the worker sent back
\* (perform_rt_free), then process() connects the external buses: the
\* input bus gets the driver's samples and the current epoch, the output
\* bus the driver's buffer with whatever it holds.
PerformAndConnect(input, output) ==
    /\ pc = "worker"
    /\ fromWorker' = <<>>
    /\ busData' = [busData EXCEPT !["in"] = input, !["out"] = output]
    /\ busEpoch' = [busEpoch EXCEPT !["in"] = epoch]
    /\ written' = written \cup {"in"}
    /\ mix' = [mix EXCEPT !["in"] = input]
    /\ pc' = "graph"
    /\ UNCHANGED <<clientVars, pcat, refs, freeCmds, freed, rq, calls, curTime,
                   numFrames, epoch, local, sched, schedCnt, nodes, toWorker,
                   replies, synthDefs, doneAfter, log, mlog, busOps, lastWrite, lastRead>>

\* An engine bug: the driver's output buffer is left as it is.
ZeroUnwrittenNever(data, busEp, envEp, n) == data

\* The driver's output buffer at the end of process(): its first n samples
\* are zeroed unless the output bus carries the environment's epoch.
ZeroUnwritten(data, busEp, envEp, n) ==
    IF busEp # envEp
    THEN [i \in DOMAIN data |-> IF i <= n THEN 0 ELSE data[i]]
    ELSE data

\* After m_rootNode->process: outputs that have not been written are
\* zeroed and the epoch advances.
ProcessEnd ==
    /\ pc \in {"graph", "mixed"}
    /\ busData' = [busData EXCEPT !["out"] =
                      ZeroUnwritten(@, busEpoch["out"], epoch, numFrames)]
    /\ epoch' = NextEpoch(epoch)
    /\ written' = {}
    /\ mix' = [b \in Buses |-> Silence]
    /\ busOps' = 0
    /\ lastWrite' = <<>> /\ lastRead' = <<>>
    /\ pc' = "idle"
    /\ UNCHANGED <<clientVars, pcat, refs, freeCmds, freed, rq, calls, curTime,
                   numFrames, local, sched, schedCnt, nodes, toWorker,
                   fromWorker, replies, synthDefs, doneAfter, log, mlog, busEpoch>>

\* ------------------------------------------------------------ connections
\* A connection's busId(): a bus, or "none" when no bus is mapped.
BusIds == Buses \cup {"none"}
OutputKinds == {"Out", "ReplaceOut"}
InputKinds == {"In", "InFeedback"}
\* What a synth may hand to write().
Sources == {Ones, Ramp}
\* What the driver's buffers may hold when process() is called.
DriverInputs == {Silence, Ramp}
DriverOutputs == {Silence, Ones}

\* The first n samples of v, the rest of w.
Prefix(v, w, n) == [i \in Frames |-> IF i <= n THEN v[i] ELSE w[i]]

Add(v, w) == [i \in Frames |-> v[i] + w[i]]

\* A connection bug: write() accumulates whatever the bus's epoch is.
WriteDataAccumulate(data, busEp, envEp, src, n) ==
    Prefix(Add(data, src), data, n)

\* The samples of the bus after AudioOutputConnection::write of src to a
\* bus with epoch busEp and samples data, in a block of n frames.
WriteData(data, busEp, envEp, src, n) ==
    IF busEp = envEp
    THEN Prefix(Add(data, src), data, n)
    ELSE Prefix(src, data, n)

\* A connection bug: an unmapped input is left as the synth's buffer was.
ReadDataUnmappedStale(bus, n) ==
    IF bus # "none"
    THEN IF busEpoch[bus] = epoch
         THEN Prefix(busData[bus], Silence, n)
         ELSE Silence
    ELSE Prefix(Ones, Silence, n)

\* What AudioInputConnection::read leaves in the first n samples of dst.
ReadData(bus, n) ==
    IF bus # "none"
    THEN IF busEpoch[bus] = epoch
         THEN Prefix(busData[bus], Silence, n)
         ELSE Silence
    ELSE Silence

\* AudioOutputConnection::write of a connection of the given kind mapped to
\* bus, called while the node tree is processed.
ConnWrite(bus, kind, src) ==
    /\ pc = "graph"
    /\ busOps < MaxBusOps
    /\ busOps' = busOps + 1
    /\ IF bus # "none"
       THEN /\ busData' = [busData EXCEPT ![bus] =
                              WriteData(@, busEpoch[bus], epoch, src, numFrames)]
            /\ busEpoch' = [busEpoch EXCEPT ![bus] = epoch]
            /\ written' = written \cup {bus}
            /\ mix' = [mix EXCEPT ![bus] =
                          IF bus \in written
                          THEN Prefix(Add(@, src), Silence, numFrames)
                          ELSE Prefix(src, Silence, numFrames)]
       ELSE UNCHANGED <<busData, busEpoch, written, mix>>
    /\ lastWrite' = <<[bus |-> bus, kind |-> kind, src |-> src]>>
    /\ lastRead' = <<>>
    /\ UNCHANGED <<clientVars, pcat, refs, freeCmds, freed, rq, pc, calls,
                   curTime, numFrames, epoch, local, sched, schedCnt, nodes,
                   toWorker, fromWorker, replies, synthDefs, doneAfter, log, mlog>>

\* AudioInputConnection::read of a connection of the given kind mapped to
\* bus.
ConnRead(bus, kind) ==
    /\ pc = "graph"
    /\ busOps < MaxBusOps
    /\ busOps' = busOps + 1
    /\ lastRead' = <<[bus |-> bus, kind |-> kind, dst |-> ReadData(bus, numFrames)]>>
    /\ UNCHANGED <<clientVars, pcat, refs, freeCmds, freed, rq, pc, calls,
                   curTime, numFrames, epoch, local, sched, schedCnt, nodes,
                   toWorker, fromWorker, replies, synthDefs, doneAfter, log, mlog, busData, busEpoch,
                   written, mix, lastWrite>>

\* -------------------------------------------------------------- node tree
\* The bus an audio bus id names.
BusOf(id) ==
    IF id = 1 THEN "in" ELSE IF id = 2 THEN "out" ELSE IF id = 3 THEN "bus"
    ELSE "none"

\* The buses after the synths i.. of the registry were processed, in the
\* order of their ids: an activated synth reads its input and writes a
\* block of ones to its output; b holds the buses' data, epochs, the set of
\* buses written in this block and its sums, and the history.
RECURSIVE ProcessSynths(_, _)
ProcessSynths(b, i) ==
    IF i \notin NodeIds THEN b
    ELSE IF nodes[i].type = "synth" /\ nodes[i].acts > 0
         THEN LET bus == BusOf(nodes[i].out)
                  c == [b EXCEPT !.log = Append(@, Event("process", 0, 0, i, calls))]
              IN  IF bus = "none" THEN ProcessSynths(c, i + 1)
                  ELSE ProcessSynths(
                         [c EXCEPT
                            !.data[bus] = WriteData(@, b.ep[bus], epoch, Ones, numFrames),
                            !.ep[bus] = epoch,
                            !.written = @ \cup {bus},
                            !.mix[bus] = IF bus \in b.written
                                         THEN Prefix(Add(@, Ones), Silence, numFrames)
                                         ELSE Prefix(Ones, Silence, numFrames)],
                         i + 1)
         ELSE ProcessSynths(b, i + 1)

\* m_rootNode->process(numFrames): every synth of the tree is processed.
RootProcess ==
    /\ pc = "graph"
    /\ LET b == ProcessSynths([data |-> busData, ep |-> busEpoch,
                               written |-> written, mix |-> mix, log |-> log],
                              kRootId + 1)
       IN  /\ busData' = b.data
           /\ busEpoch' = b.ep
           /\ written' = b.written
           /\ mix' = b.mix
           /\ log' = b.log
    /\ pc' = "mixed"
    /\ UNCHANGED <<clientVars, pcat, refs, freeCmds, freed, rq, calls, curTime,
                   numFrames, epoch, local, sched, schedCnt, nodes, toWorker,
                   fromWorker, replies, synthDefs, doneAfter, mlog, busOps, lastWrite, lastRead>>

\* ---------------------------------------------------------- specification
\* The frame counts the driver passes to process(): a full block for the
\* engine, full and partial blocks for the bus harness.
FullBlocks == {BlockSize}
FrameCounts == {1, 2}

\* The audio thread's steps of Environment::process around the node tree.
AudioNext ==
    \/ \E nf \in FullBlocks : ProcessBegin(nf)
    \/ ProcessRequest
    \/ RequestsDone
    \/ SchedulerStep
    \/ SchedulerDone
    \/ ProcessEnd

\* The engine with a client whose calls of send() do not overlap the audio
\* thread's handling of the same packet.
Next ==
    \/ \E p \in Packets : Send(p)
    \/ WorkerPerform
    \/ AudioNext
    \/ PerformAndConnect(Silence, Silence)

Spec == Init /\ [][Next]_vars

\* The engine with a client whose temporary Request is destroyed while the
\* audio thread runs.
NextRace ==
    \/ \E p \in RacePackets : SendEnqueue(p)
    \/ ClientReleaseRead
    \/ ClientReleaseWrite
    \/ WorkerPerform
    \/ AudioNext
    \/ PerformAndConnect(Silence, Silence)

SpecRace == Init /\ [][NextRace]_vars

\* The engine with a client whose messages fail and whose scheduled bundles
\* outnumber the scheduler's capacity.
NextErr ==
    \/ \E p \in ErrPackets : SendUpTo(p, MaxSends + 1)
    \/ WorkerPerform
    \/ AudioNext
    \/ PerformAndConnect(Silence, Silence)

SpecErr == Init /\ [][NextErr]_vars

\* The engine with a client that times its requests.
NextTimed ==
    \/ \E p \in TimePackets : Send(p)
    \/ WorkerPerform
    \/ AudioNext
    \/ PerformAndConnect(Silence, Silence)

SpecTimed == Init /\ [][NextTimed]_vars

\* The engine with a client that sends bundles for later times and a
\* driver that keeps calling process(): a step of the audio thread that can
\* be taken is taken.
NextLive ==
    \/ \E p \in LivePackets : Send(p)
    \/ WorkerPerform
    \/ AudioNext
    \/ PerformAndConnect(Silence, Silence)

SpecLive ==
    /\ Init /\ [][NextLive]_vars
    /\ WF_vars(AudioNext)
    /\ WF_vars(PerformAndConnect(Silence, Silence))

\* The engine with plugins that register definitions while it runs.
NextDefs ==
    \/ \E u \in Uris, d \in Defs : RegisterSynthDef(u, d)
    \/ \E p \in DefPackets : Send(p)
    \/ WorkerPerform
    \/ AudioNext
    \/ PerformAndConnect(Silence, Silence)

SpecDefs == Init /\ [][NextDefs]_vars

\* The engine with a client that creates, maps and frees nodes, and the
\* node tree processed in every block.
NextNode ==
    \/ \E p \in NodePackets : Send(p)
    \/ WorkerPerform
    \/ \E nf \in FullBlocks : ProcessBegin(nf)
    \/ ProcessRequest
    \/ RequestsDone
    \/ SchedulerStep
    \/ SchedulerDone
    \/ PerformAndConnect(Silence, Silence)
    \/ RootProcess
    \/ pc = "mixed" /\ ProcessEnd

SpecNode == Init /\ [][NextNode]_vars

\* Packets whose Phase B fails validation, and valid messages among them:
\* messages addressed to the root group, and for node 1 an index below and
\* an index above the range of each port kind.
IndexPackets ==
    { Bundle(kImmediate,
             << SynthNew(1),
                NodeSet(kRootId), MapInput(kRootId, 1), MapOutput(kRootId, 3),
                Msg("/node/set", 1, 0 - 1, 1, ""),
                Msg("/synth/map/input", 1, NumAudioInputs, 1, ""),
                Msg("/synth/map/output", 1, 0 - 1, 3, "") >>),
      Bundle(3, << Msg("/node/set", 1, NumControlInputs, 1, ""),
                   Msg("/synth/map/input", 1, 0 - 1, 1, ""),
                   Msg("/synth/map/output", 1, NumAudioOutputs, 3, ""),
                   NodeSet(1), MapInput(1, 1), MapOutput(1, 3) >>) }

NextIndex ==
    \/ \E p \in IndexPackets : Send(p)
    \/ WorkerPerform
    \/ \E nf \in FullBlocks : ProcessBegin(nf)
    \/ ProcessRequest
    \/ RequestsDone
    \/ SchedulerStep
    \/ SchedulerDone
    \/ PerformAndConnect(Silence, Silence)
    \/ RootProcess
    \/ pc = "mixed" /\ ProcessEnd

SpecIndex == Init /\ [][NextIndex]_vars

\* ------------------------------------------------------------- DoneAfter
MaxSeconds == 5
MaxSampleRate == 2
MaxDoneFrames == 2
MaxDoneCalls == 4

\* The values of the option m_seconds, in 1/FramesScale seconds; negative
\* and zero durations included.
SecondsValues == (0 - 1) .. MaxSeconds

engineVars == <<cpc, cpkt, ctmp, pcat, refs, freeCmds, freed, rq, pc, calls,
                curTime, numFrames, epoch, local, sched, schedCnt, nodes,
                toWorker, fromWorker, replies, synthDefs, log, mlog, busVars>>

\* A completion bug: a synth whose time is exactly up is not done yet.
ExpiredStrict(left) == left < 0

\* m_numFramesLeft <= 0
Expired(left) == left <= 0

\* DoneAfter::DoneAfter: m_numFramesLeft = (double)options.m_seconds *
\* world.sampleRate(), m_done = false. target, frames and dones are history:
\* seconds * sampleRate, the cumulative number of frames after each call of
\* process, and the calls of process in which synthDone was called.
DoneAfterConstruct(seconds, sr) ==
    /\ ~doneAfter.made
    /\ doneAfter' = [made |-> TRUE, m_numFramesLeft |-> seconds * sr,
                     m_done |-> FALSE, target |-> seconds * sr,
                     frames |-> <<>>, dones |-> <<>>]
    /\ UNCHANGED engineVars

\* DoneAfter::process(world, n)
DoneAfterProcess(n) ==
    /\ doneAfter.made
    /\ Len(doneAfter.frames) < MaxDoneCalls
    /\ LET call == Len(doneAfter.frames) + 1
           cum  == (IF call = 1 THEN 0 ELSE doneAfter.frames[call - 1]) + n
           left == doneAfter.m_numFramesLeft - FramesScale * n
       IN  doneAfter' =
             IF ~doneAfter.m_done
             THEN IF Expired(left)
                  THEN [doneAfter EXCEPT !.m_numFramesLeft = left,
                                         !.m_done = TRUE,
                                         !.dones = Append(@, call),
                                         !.frames = Append(@, cum)]
                  ELSE [doneAfter EXCEPT !.m_numFramesLeft = left,
                                         !.frames = Append(@, cum)]
             ELSE [doneAfter EXCEPT !.frames = Append(@, cum)]
    /\ UNCHANGED engineVars

NextDone ==
    \/ \E seconds \in SecondsValues, sr \in 1 .. MaxSampleRate :
          DoneAfterConstruct(seconds, sr)
    \/ \E n \in 0 .. MaxDoneFrames : DoneAfterProcess(n)

SpecDone == Init /\ [][NextDone]_vars

\* The buses under the connections' reads and writes, block after block,
\* with no client.
NextBus ==
    \/ \E nf \in FrameCounts : ProcessBegin(nf)
    \/ RequestsDone
    \/ SchedulerDone
    \/ \E i \in DriverInputs, o \in DriverOutputs : PerformAndConnect(i, o)
    \/ \E b \in BusIds, k \in OutputKinds, src \in Sources : ConnWrite(b, k, src)
    \/ \E b \in BusIds, k \in InputKinds : ConnRead(b, k)
    \/ ProcessEnd

SpecBus == Init /\ [][NextBus]_vars

\* ------------------------------------------------------------------ claims
Log == DOMAIN log

\* The history holds an event ev of request r before position j.
Earlier(ev, r, j) == \E i \in Log : i < j /\ log[i].ev = ev /\ log[i].req = r

Count(ev, r) == Cardinality({i \in Log : log[i].ev = ev /\ log[i].req = r})

\* C1 as stated: of any two requests dispatched from the scheduler, the one
\* with the smaller time has its Phase B called first, whenever they
\* arrived.
C1_OrderAsStated ==
    \A i, j \in Log :
        (log[i].ev = "Bs" /\ log[j].ev = "Bs" /\ log[i].time < log[j].time)
            => i < j

\* C1 amended: if r1 with time t1 was pushed into the scheduler before
\* Phase B of r2 with time t2 > t1 is called, Phase B of r1 is called
\* before Phase B of r2.
C1_OrderAmongPending ==
    \A j \in Log :
        log[j].ev = "Bs" =>
            \A k \in 1 .. (j - 1) :
                (log[k].ev = "push" /\ log[k].time < log[j].time)
                    => Earlier("Bs", log[k].req, j)

\* Two requests with different times were pushed before either was
\* dispatched from the scheduler, the later time first, and both have been
\* dispatched.
C1_Witness ==
    \E k1, k2, j1, j2 \in Log :
        /\ log[k1].ev = "push" /\ log[k2].ev = "push"
        /\ log[j1].ev = "Bs" /\ log[j2].ev = "Bs"
        /\ log[j1].req = log[k1].req /\ log[j2].req = log[k2].req
        /\ log[k1].time > log[k2].time
        /\ k1 < k2 /\ k2 < j1 /\ k2 < j2

\* C2: of two requests pushed with the same time, the one pushed first has
\* its Phase B called first.
C2_TiesInPushOrder ==
    \A j \in Log :
        log[j].ev = "Bs" =>
            \A k2 \in Log :
                (log[k2].ev = "push" /\ log[k2].req = log[j].req) =>
                    \A k1 \in 1..(k2 - 1) :
                        (log[k1].ev = "push" /\ log[k1].time = log[k2].time)
                            => Earlier("Bs", log[k1].req, j)

\* Two requests with the same time were both in the scheduler, another
\* request was pushed in between, and both have been dispatched.
C2_Witness ==
    \E k1, k2, k3, j1, j2 \in Log :
        /\ log[k1].ev = "push" /\ log[k2].ev = "push" /\ log[k3].ev = "push"
        /\ k1 < k3 /\ k3 < k2
        /\ log[k1].time = log[k2].time /\ log[k3].time # log[k1].time
        /\ log[j1].ev = "Bs" /\ log[j1].req = log[k1].req
        /\ log[j2].ev = "Bs" /\ log[j2].req = log[k2].req
        /\ k2 < j1

\* The requests whose packet holds a /synth/new message.
RECURSIVE HasSynthNew(_)
HasSynthNew(p) ==
    IF p.bundle
    THEN \E i \in DOMAIN p.elems : HasSynthNew(p.elems[i])
    ELSE p.addr = "/synth/new"

SynthNewRequests == {r \in DOMAIN pcat : HasSynthNew(pcat[r])}

\* The request has been drained and is neither waiting in the scheduler
\* nor being handled.
Settled(r) ==
    /\ Count("A", r) > 0
    /\ \A it \in sched : it.pkt # r

\* C3 as stated, for the requests the scheduler did not refuse: a
\* /synth/new request that the engine is done with has activated its synth
\* exactly once, never zero times.
C3_ExactlyOnceAsStated ==
    \A r \in SynthNewRequests :
        (Settled(r) /\ Count("overflow", r) = 0) => Count("act", r) = 1

\* C3 amended: Phase B of a /synth/new request is called at most once and
\* activates at most once; a request the engine is done with has activated
\* exactly once unless the scheduler refused it or its Phase B found no
\* synth under the node id.
C3_AtMostOnce ==
    \A r \in SynthNewRequests :
        /\ Count("Bi", r) + Count("Bs", r) <= 1
        /\ Count("act", r) <= 1
        /\ Settled(r) =>
              \/ Count("act", r) = 1
              \/ Count("overflow", r) = 1
              \/ Count("errB", r) = 1

\* A bare message, an immediate bundle and a scheduled bundle have each
\* activated their synth.
C3_Witness ==
    \E a, b, c \in SynthNewRequests :
        /\ ~pcat[a].bundle
        /\ pcat[b].bundle /\ pcat[b].time = kImmediate
        /\ pcat[c].bundle /\ pcat[c].time # kImmediate
        /\ Count("act", a) = 1 /\ Count("act", b) = 1 /\ Count("act", c) = 1
        /\ Count("Bs", c) = 1

\* C4: a push into the full scheduler is followed by an error command for
\* the worker (or by the /error reply made from it) that names the
\* overflow.
C4_OverflowSurfaces ==
    (\E i \in Log : log[i].ev = "overflow")
        => \/ \E i \in DOMAIN toWorker :
                 /\ toWorker[i].f = "response_error"
                 /\ toWorker[i].msg = "Scheduler queue overflow"
           \/ \E i \in DOMAIN replies :
                 replies[i].message = "Scheduler queue overflow"

\* The Request handles of packet p held by the engine: the request queue's
\* slots, the local Request of processRequests and the scheduler's items.
EngineHandles(p) ==
    Cardinality({i \in DOMAIN rq : rq[i] = p})
    + (IF local = p THEN 1 ELSE 0)
    + Cardinality({it \in sched : it.pkt = p})

\* C5: the free command of a packet is issued at most once, and not while
\* the engine holds a Request handle of the packet.
C5_FreeAfterLastHandle ==
    \A p \in DOMAIN pcat :
        /\ freeCmds[p] <= 1
        /\ freeCmds[p] > 0 => EngineHandles(p) = 0

\* C6 as stated: in one block every Phase A comes before every Phase B.
C6_AllABeforeAnyB ==
    \A i, j \in Log :
        (log[i].ev = "A" /\ log[j].ev \in {"Bi", "Bs"} /\ log[i].blk = log[j].blk)
            => i < j

\* C6 amended: in one block every Phase A comes before every Phase B that
\* is called from the scheduler; the Phase B of an immediate request is
\* called right after the Phase A of the same request, before the Phase A
\* of the requests drained after it.
C6_ABeforeScheduledB ==
    /\ \A j \in Log :
          log[j].ev = "Bs" =>
              \A i \in Log :
                  (log[i].ev = "A" /\ log[i].blk = log[j].blk) => i < j
    /\ \A j \in Log :
          log[j].ev = "Bi" => (j > 1 /\ log[j - 1].ev = "A"
                               /\ log[j - 1].req = log[j].req)

\* In one block two requests were drained, the first one immediate, and a
\* third request was dispatched from the scheduler.
C6_Witness ==
    \E i, j, k, l \in Log :
        /\ i < j /\ j < k /\ k < l
        /\ log[i].ev = "A" /\ log[j].ev = "Bi" /\ log[k].ev = "A"
        /\ log[l].ev = "Bs"
        /\ log[i].blk = log[l].blk /\ log[k].blk = log[l].blk

\* C10: the epoch is the number of completed calls of process(): each call
\* adds exactly 1 when it ends, nothing else changes it.
C10_EpochCountsCalls ==
    epoch = IF pc = "idle" THEN calls ELSE calls - 1

\* Two calls of process() have ended, in which requests were drained, an
\* item was dispatched from the scheduler and a worker command was
\* performed.
C10_Witness ==
    /\ pc = "idle" /\ epoch = 2
    /\ \E i \in Log : log[i].ev = "Bs"
    /\ \E i \in Log : log[i].ev = "Bi"
    /\ replies # <<>>

\* The samples i of a block of numFrames frames.
Block == {i \in Frames : i <= numFrames}

\* C7: while the node tree is processed, a bus written in this block holds
\* the sample-wise sum of what was written to it in this block (for the
\* external input bus: the driver's samples and what was written on top),
\* whatever it held before, and a read of it yields that sum.
C7_MixLaw ==
    pc = "graph" =>
        /\ \A b \in written : \A i \in Block : busData[b][i] = mix[b][i]
        /\ \A k \in DOMAIN lastRead :
              lastRead[k].bus \in written =>
                  \A i \in Block : lastRead[k].dst[i] = mix[lastRead[k].bus][i]

\* In a block of one frame, with the internal bus still holding a sample of
\* an earlier block behind that frame, two writes to the internal bus were
\* followed by a read that got their sum.
C7_Witness ==
    /\ pc = "graph" /\ epoch >= 1 /\ numFrames = 1
    /\ busData["bus"][BlockSize] # 0
    /\ busOps = 3
    /\ mix["bus"][1] = 2
    /\ lastRead # <<>>
    /\ lastRead[1].bus = "bus"
    /\ lastRead[1].dst[1] = 2

\* C8: after a write through a ReplaceOut connection the bus holds the
\* samples of that write.
C8_ReplaceLaw ==
    \A k \in DOMAIN lastWrite :
        (lastWrite[k].kind = "ReplaceOut" /\ lastWrite[k].bus # "none")
            => \A i \in Block : busData[lastWrite[k].bus][i] = lastWrite[k].src[i]

\* C9: a bus carries the environment's epoch exactly if it was written in
\* the current block (the external input bus is written by the driver when
\* process() connects it).
C9_EpochIffWritten ==
    \A b \in Buses : (busEpoch[b] = epoch) <=> (b \in written)

\* In the second block one bus has been written and the others, one of
\* them written in the first block, have not.
C9_Witness ==
    /\ epoch = 1
    /\ pc = "graph"
    /\ "out" \in written
    /\ "bus" \notin written
    /\ busEpoch["bus"] = 0

\* The number of messages of a packet, nested bundles flattened.
RECURSIVE NumMessages(_)
NumMessages(p) ==
    IF p.bundle
    THEN LET RECURSIVE Sum(_)
             Sum(i) == IF i > Len(p.elems) THEN 0
                       ELSE NumMessages(p.elems[i]) + Sum(i + 1)
         IN  Sum(1)
    ELSE 1

MLog == DOMAIN mlog

MCount(ph, r) == Cardinality({i \in MLog : mlog[i].ph = ph /\ mlog[i].req = r})

NodeAddrs ==
    {"/synth/new", "/node/free", "/node/set", "/synth/map/input",
     "/synth/map/output"}

\* C12: a message of the timed phase that addresses an absent node replies
\* NodeIdError and leaves the nodes (registry, controls, bus mappings) as
\* they were; every NodeIdError makes one error command for the worker,
\* which makes one /error reply of it.
C12_AbsentNodeIdError ==
    /\ \A i \in MLog :
          (mlog[i].ph = "B" /\ mlog[i].addr \in NodeAddrs /\ mlog[i].was = "none")
              => (mlog[i].err = "NodeIdError" /\ mlog[i].kept)
    /\ Cardinality({i \in MLog : mlog[i].err = "NodeIdError"})
          = Cardinality({i \in DOMAIN replies :
                            /\ replies[i].addr = "/error"
                            /\ replies[i].message = "NodeIdError"})
            + Cardinality({i \in DOMAIN toWorker :
                            /\ toWorker[i].f = "response_error"
                            /\ toWorker[i].msg = "NodeIdError"})

\* /node/set, /synth/map/input and /synth/map/output have addressed the
\* absent node 1, the activation of a scheduled /synth/new has found its
\* node freed, the client has got the four replies, and a later block has
\* ended.
C12_Witness ==
    /\ \A a \in {"/node/set", "/synth/map/input", "/synth/map/output"} :
          \E i \in MLog :
             /\ mlog[i].ph = "B" /\ mlog[i].addr = a /\ mlog[i].was = "none"
    /\ \E i, j, k \in MLog :
          /\ i < j /\ j < k
          /\ mlog[i].ph = "A" /\ mlog[i].addr = "/synth/new" /\ mlog[i].err = ""
          /\ mlog[j].ph = "B" /\ mlog[j].addr = "/node/free" /\ mlog[j].err = ""
          /\ mlog[j].node = mlog[i].node
          /\ mlog[k].ph = "B" /\ mlog[k].addr = "/synth/new"
          /\ mlog[k].req = mlog[i].req /\ mlog[k].err = "NodeIdError"
    /\ Cardinality({i \in DOMAIN replies : replies[i].message = "NodeIdError"}) >= 4
    /\ pc = "idle" /\ epoch = 2

\* Entry i of the message history is a /node/free that found its node.
Freed(i) ==
    /\ mlog[i].ph = "B" /\ mlog[i].addr = "/node/free"
    /\ mlog[i].was # "none" /\ mlog[i].node # kRootId

\* Entry k of the message history created node n anew.
Created(k, n) ==
    /\ mlog[k].ph = "A" /\ mlog[k].addr \in {"/synth/new", "/group/new"}
    /\ mlog[k].node = n /\ mlog[k].err = ""

\* C13: /node/free of an existing node other than the root removes it from
\* the registry; until a node is created under the id again, messages of
\* the timed phase that address it reply NodeIdError, and the node is not
\* processed in the block of the /node/free or in a later one.
C13_FreedNodeGone ==
    \A i \in MLog :
        Freed(i) =>
            /\ mlog[i].err = "" /\ mlog[i].gone
            /\ \A j \in MLog :
                  (j > i /\ mlog[j].ph = "B" /\ mlog[j].node = mlog[i].node
                   /\ mlog[j].addr \in NodeAddrs
                   /\ \A k \in i .. j : ~Created(k, mlog[i].node))
                      => (mlog[j].was = "none" /\ mlog[j].err = "NodeIdError")
            /\ \A l \in Log :
                  (log[l].ev = "process" /\ log[l].node = mlog[i].node
                   /\ log[l].blk >= mlog[i].blk)
                      => \E k \in MLog :
                            /\ k > i /\ Created(k, mlog[i].node)
                            /\ mlog[k].blk <= log[l].blk

\* Synth 1 was created, activated and mapped to the internal bus and wrote
\* to it in the first block; it was freed in the second block, a later
\* message that addressed it failed, and the second block's node tree was
\* processed without it.
C13_Witness ==
    /\ pc = "idle" /\ epoch = 2
    /\ \E l \in Log : log[l].ev = "process" /\ log[l].node = 1 /\ log[l].blk = 1
    /\ nodes[1].type = "none"
    /\ \E i, j \in MLog :
          /\ Freed(i) /\ mlog[i].node = 1 /\ mlog[i].blk = 2
          /\ j > i /\ mlog[j].ph = "B" /\ mlog[j].node = 1
          /\ mlog[j].err = "NodeIdError"
          /\ \E k \in MLog :
                /\ k < i /\ mlog[k].addr = "/synth/map/output"
                /\ mlog[k].node = 1 /\ mlog[k].err = ""
                /\ mlog[k].blk = 1

\* C14: the root group is in the registry in every state, and a /node/free
\* with the root's id replies an error and leaves the nodes as they were.
C14_RootNeverFreed ==
    /\ Contains(nodes, kRootId)
    /\ nodes[kRootId].type = "group"
    /\ \A i \in MLog :
          (mlog[i].ph = "B" /\ mlog[i].addr = "/node/free"
           /\ mlog[i].node = kRootId)
              => (mlog[i].err # "" /\ mlog[i].kept /\ ~mlog[i].gone)

\* /node/free of the root has been dispatched and the client has got the
\* /error reply; a /node/free of another node in the same bundle removed
\* that node.
C14_Witness ==
    /\ \E i, j \in MLog :
          /\ i < j /\ mlog[i].req = mlog[j].req
          /\ mlog[i].ph = "B" /\ mlog[i].addr = "/node/free"
          /\ mlog[i].node = kRootId /\ mlog[i].err = "NodeIdError"
          /\ Freed(j) /\ mlog[j].err = ""
    /\ \E i \in DOMAIN replies : replies[i].addr = "/error"
    /\ pc = "idle" /\ epoch = 1

\* The event a step has added to the end of the history, "" if none.
Logged ==
    IF Len(log') > Len(log) THEN log'[Len(log')].ev ELSE ""

\* C15: the scheduler never holds more than maxSize items; a push is
\* refused exactly when the scheduler is full, and a refused push leaves
\* the items and their order as they were.
C15_SchedulerBounded ==
    /\ [](Cardinality(sched) <= MaxSchedulerSize)
    /\ [][/\ Logged = "overflow" =>
                /\ Cardinality(sched) = MaxSchedulerSize
                /\ sched' = sched /\ schedCnt' = schedCnt
          /\ Logged = "push" =>
                /\ Cardinality(sched) < MaxSchedulerSize
                /\ Cardinality(sched') = Cardinality(sched) + 1]_vars

\* A push was refused with the scheduler full, and the items it held then
\* were dispatched later in the order of their pushes.
C15_Witness ==
    /\ \E i \in Log : log[i].ev = "overflow"
    /\ \E i, j, k, l \in Log :
          /\ i < j /\ j < k /\ k < l
          /\ log[i].ev = "push" /\ log[j].ev = "push"
          /\ log[k].ev = "Bs" /\ log[k].req = log[i].req
          /\ log[l].ev = "Bs" /\ log[l].req = log[j].req
          /\ \E o \in Log : j < o /\ o < k /\ log[o].ev = "overflow"
    /\ sched = {}

\* C16: memory stays in its allocator's domain and is freed once. Packet
\* storage (system heap) is freed by perform_free_data, a command the worker
\* performs, at most once per packet; error data (RT arena) is returned by
\* perform_rt_free, a command the audio thread performs, once per reply
\* made from it.
C16_FreedOnceInDomain ==
    /\ \A i \in DOMAIN toWorker : toWorker[i].f \in {"free_data", "response_error"}
    /\ \A i \in DOMAIN fromWorker : fromWorker[i].f = "rt_free"
    /\ Len(fromWorker) <= Len(replies)
    /\ \A p \in DOMAIN pcat :
          /\ freed[p] <= 1
          /\ freed[p] <= freeCmds[p]

\* C17: every message is dispatched in the timed phase with the time of
\* the innermost bundle that holds it (the current time for an immediate
\* bundle and for a bare message).
C17_InnermostTimeWins ==
    \A i \in MLog :
        mlog[i].ph = "B" =>
            mlog[i].time = IF mlog[i].inner = kImmediate
                           THEN mlog[i].cur
                           ELSE methcla_time_from_uint64(mlog[i].inner)

\* C18: the sample offset a synth is activated with, scheduleTime -
\* currentTime in frames, is an index into the current block.
C18_OffsetInsideBlock ==
    \A i \in MLog :
        (mlog[i].ph = "B" /\ mlog[i].addr = "/synth/new" /\ mlog[i].err = "")
            => /\ 0 <= mlog[i].time - mlog[i].cur
               /\ mlog[i].time - mlog[i].cur < mlog[i].nf

\* The request r is immediate: a bare message or a bundle with time 1.
Immediate(r) == ~pcat[r].bundle \/ pcat[r].time = kImmediate

\* Phase A of request r returned true: some message of its packet was not a
\* /group/new that succeeded.
NeedsPhaseB(r) ==
    \E i \in MLog : /\ mlog[i].ph = "A" /\ mlog[i].req = r
                     /\ ~(mlog[i].addr = "/group/new" /\ mlog[i].err = "")

C19_WitnessGroup ==
    \E r \in DOMAIN pcat :
        /\ pcat[r].addr = "/group/new"
        /\ Count("A", r) = 1 /\ ~NeedsPhaseB(r) /\ Count("Bi", r) = 0

\* Call j of processMessage activated synth n, or freed node n.
Activates(j, n) ==
    /\ mlog[j].ph = "B" /\ mlog[j].addr = "/synth/new"
    /\ mlog[j].node = n /\ mlog[j].err = ""
Frees(j, n) ==
    /\ mlog[j].ph = "B" /\ mlog[j].addr = "/node/free"
    /\ mlog[j].node = n /\ mlog[j].err = ""

\* Call i of processMessage is the structural phase of a /synth/new that
\* created a synth, in a bundle whose time lies after the start of the
\* block that drained it.
CreatesForLater(i) ==
    /\ mlog[i].ph = "A" /\ mlog[i].addr = "/synth/new" /\ mlog[i].err = ""
    /\ pcat[mlog[i].req].bundle
    /\ pcat[mlog[i].req].time # kImmediate
    /\ methcla_time_from_uint64(pcat[mlog[i].req].time) > mlog[i].cur

\* The synth created by call i is the one the id names after call j - 1: no
\* call between them activated or freed it.
Untouched(i, j) ==
    \A k \in MLog :
        (i < k /\ k < j) => /\ ~Activates(k, mlog[i].node)
                           /\ ~Frees(k, mlog[i].node)

\* C20: a synth created for a later time is in the registry when Phase A
\* returns and is not activated before the timed phase of its own request,
\* which runs in the block whose span of time holds the bundle's time (its
\* end included).
C20_InactiveUntilOwnPhaseB ==
    \A i \in MLog :
        CreatesForLater(i) =>
            /\ ~mlog[i].gone
            /\ Untouched(i, Len(mlog) + 1)
                  => /\ nodes[mlog[i].node].type = "synth"
                     /\ nodes[mlog[i].node].acts = 0
            /\ \A j \in MLog :
                  (i < j /\ Activates(j, mlog[i].node) /\ Untouched(i, j))
                      => /\ mlog[j].req = mlog[i].req
                         /\ mlog[j].cur <= mlog[j].time
                         /\ mlog[j].time <= mlog[j].cur + mlog[j].nf

\* C21: a read through an InFeedback connection yields what the bus holds
\* from the block before when the bus was written in that block (there is
\* a block before, and the bus carries its epoch), and a read through an In
\* connection yields the bus's samples if the bus was
\* written earlier in this block and silence otherwise.
C21_FeedbackReadsLastBlock ==
    \A k \in DOMAIN lastRead :
        LET r == lastRead[k]
        IN  /\ (r.kind = "InFeedback" /\ r.bus # "none"
                   /\ calls > 1 /\ busEpoch[r.bus] = epoch - 1)
                  => r.dst = Prefix(busData[r.bus], Silence, numFrames)
            /\ (r.kind = "In" /\ r.bus # "none")
                  => r.dst = IF r.bus \in written
                             THEN Prefix(busData[r.bus], Silence, numFrames)
                             ELSE Silence

\* C21, the part on In connections alone.
C21_InReadsThisBlock ==
    \A k \in DOMAIN lastRead :
        (lastRead[k].kind = "In" /\ lastRead[k].bus # "none")
            => lastRead[k].dst = IF lastRead[k].bus \in written
                                 THEN Prefix(busData[lastRead[k].bus], Silence, numFrames)
                                 ELSE Silence

\* C22: a read through an input connection with no bus mapped yields
\* zeros for all frames of the block, and a write through an output
\* connection with no bus mapped leaves the samples and the epoch of every
\* bus as they were.
C22_UnmappedPortsIsolated ==
    /\ [](\A k \in DOMAIN lastRead :
             lastRead[k].bus = "none"
                 => \A i \in Block : lastRead[k].dst[i] = 0)
    /\ [][(/\ busOps' = busOps + 1
           /\ lastWrite' # <<>>
           /\ lastRead' = <<>>
           /\ lastWrite'[1].bus = "none")
              => (busData' = busData /\ busEpoch' = busEpoch)]_vars

\* While a bus holds samples of this block, an unmapped output was written
\* and then an unmapped input was read.
C22_Witness ==
    /\ pc = "graph"
    /\ \E b \in written : \E i \in Block : busData[b][i] # 0
    /\ lastWrite # <<>> /\ lastWrite[1].bus = "none"
    /\ lastRead # <<>> /\ lastRead[1].bus = "none"

\* C23: an /error reply for a failing message of a client's request
\* carries the id of that request, not the sentinel for messages of the
\* engine's own. (Every error reply of the engine comes from replyError in
\* a processMessage call, that is, from a client's request.)
C23_ErrorNamesRequest ==
    \A k \in DOMAIN replies :
        replies[k].addr = "/error" => replies[k].requestId # "Notification"

\* C24: when process() returns, the external output that nothing wrote
\* to during the block holds zeros in all frames of the block, whatever the
\* driver's buffer held.
C24_UnwrittenOutputZero ==
    [][(pc \in {"graph", "mixed"} /\ pc' = "idle" /\ "out" \notin written)
          => \A i \in Block : busData'["out"][i] = 0]_vars

\* A block of one frame has ended with the output not written: the first
\* sample of the driver's buffer of ones is zero, the rest is as it was.
C24_Witness ==
    /\ pc = "idle" /\ calls > 0 /\ numFrames = 1
    /\ busEpoch["out"] # epoch - 1
    /\ busData["out"][1] = 0
    /\ busData["out"][2] = 1

\* C25: a call of registerSynthDef leaves the definition that lookup finds
\* for a URI as it was, for every URI that had a definition registered.
C25_DefinitionImmutable ==
    [][\A u \in Uris :
          synthDef(u) # "none" => synthDefs'[u] = synthDefs[u]]_vars

\* C25 for the URIs other than the one registered: their definitions stay.
C25_OtherUrisKept ==
    [][\A u, v \in Uris :
          (synthDefs'[u] # synthDefs[u] /\ v # u) => synthDefs'[v] = synthDefs[v]]_vars

\* The end of the current block in the engine's time unit.
BlockEnd == curTime + numFrames

\* The request r has an item in the scheduler.
Pending(r) == \E it \in sched : it.pkt = r

\* C26: once processScheduler has returned in a block, no item with a time
\* up to the block's end is left in the scheduler; no request was ever
\* dispatched from the scheduler in a block that ended before its time; a
\* dispatched item is popped, and an item leaves the scheduler only by
\* being dispatched.
C26_DispatchesExactlyDue ==
    /\ pc \in {"worker", "graph", "mixed"}
          => \A it \in sched : it.time > BlockEnd
    /\ \A i \in MLog :
          (mlog[i].ph = "B" /\ ~Immediate(mlog[i].req))
              => mlog[i].time <= mlog[i].cur + mlog[i].nf
    /\ \A r \in DOMAIN pcat :
          /\ Count("Bs", r) > 0 => ~Pending(r)
          /\ (Count("push", r) > 0 /\ ~Pending(r)) => Count("Bs", r) = 1

\* processScheduler has returned in a block in which it dispatched one
\* request and left another, whose time is after the block's end.
C26_Witness ==
    /\ pc = "worker"
    /\ \E it \in sched : it.time > BlockEnd
    /\ \E i \in Log : log[i].ev = "Bs" /\ log[i].blk = calls

\* A Request handle of packet p is alive: one of the engine's, or the
\* temporary of a send() that has not returned.
HandleAlive(p) == EngineHandles(p) > 0 \/ (cpc # "idle" /\ cpkt = p)

\* C27: a request that was pushed into the scheduler has the command that
\* frees its packet issued only after it was dispatched and popped, and
\* once no handle of it is alive the command has been issued.
C27_FreedAfterDispatch ==
    \A p \in DOMAIN pcat :
        Count("push", p) > 0 =>
            /\ freeCmds[p] > 0 => (Count("Bs", p) > 0 /\ ~Pending(p))
            /\ ~HandleAlive(p) => (Count("Bs", p) > 0 /\ freeCmds[p] > 0)

\* C27 with a client whose send() does not overlap the audio thread: while
\* the driver keeps calling process(), a request in the scheduler is
\* eventually dispatched and popped and its packet handed to the worker.
C27_EventuallyDispatchedAndFreed ==
    \A r \in 1 .. MaxSends :
        (r \in DOMAIN pcat /\ Pending(r))
            ~> (Count("Bs", r) = 1 /\ ~Pending(r) /\ freeCmds[r] = 1)

\* Call i of processMessage is the structural phase of a /synth/new or
\* /group/new that failed.
FailedCreation(i) ==
    /\ mlog[i].ph = "A"
    /\ mlog[i].addr \in {"/synth/new", "/group/new"}
    /\ mlog[i].err # ""

\* C28: a /synth/new or /group/new that failed in the structural phase
\* left the nodes as they were, is not dispatched in the timed phase, and a
\* request made of such messages only is not pushed into the scheduler.
C28_FailedCreationDropped ==
    \A i \in MLog :
        FailedCreation(i) =>
            /\ mlog[i].kept
            /\ \A j \in MLog :
                  ~(/\ mlog[j].ph = "B"
                    /\ mlog[j].req = mlog[i].req
                    /\ mlog[j].addr = mlog[i].addr
                    /\ mlog[j].node = mlog[i].node)
            /\ NumMessages(pcat[mlog[i].req]) = 1
                  => Count("push", mlog[i].req) = 0

\* C28, the part that holds: the failing call itself changes no node.
C28_FailedCreationKeepsNodes ==
    \A i \in MLog : FailedCreation(i) => mlog[i].kept

\* C28, the effect on the nodes: no call of the timed phase for a message
\* that failed in the structural phase changes a node.
C28_FailedCreationActivatesNothing ==
    \A i, j \in MLog :
        (/\ FailedCreation(i)
         /\ mlog[j].ph = "B"
         /\ mlog[j].req = mlog[i].req
         /\ mlog[j].addr = mlog[i].addr
         /\ mlog[j].node = mlog[i].node) => mlog[j].kept

\* C29: every command in the queue to the worker was put there by the
\* audio thread.
C29_SingleProducer ==
    \A i \in DOMAIN toWorker : toWorker[i].by = "audio"

\* The live Request handles of packet p: the engine's and the temporary of
\* a send() that has not returned.
Handles(p) == EngineHandles(p) + (IF cpc # "idle" /\ cpkt = p THEN 1 ELSE 0)

\* C30: the reference count of a packet is the number of live Request
\* handles to it, and the command that frees the packet has been issued
\* exactly if no handle is left.
C30_RefsCountHandles ==
    \A p \in DOMAIN pcat :
        /\ refs[p] = Handles(p)
        /\ (freeCmds[p] > 0) <=> (Handles(p) = 0)

\* The number of events ev in the history of block b: the iterations of
\* the request loop ("A") or of the scheduler loop ("Bs") of that call.
Iterations(ev, b) == Cardinality({i \in Log : log[i].ev = ev /\ log[i].blk = b})

\* C31: in every call of process() the request loop runs at most as many
\* iterations as the request queue has slots, and the scheduler loop at
\* most as many as the scheduler has, whatever the client does.
C31_LoopsBoundedByCapacity ==
    \A b \in 1 .. calls :
        /\ Iterations("A", b) <= MaxRequestQueue
        /\ Iterations("Bs", b) <= MaxSchedulerSize

\* C31 for the scheduler loop alone: items are pushed only before the loop
\* starts, so it pops at most as many as the scheduler holds.
C31_SchedulerLoopBounded ==
    \A b \in 1 .. calls : Iterations("Bs", b) <= MaxSchedulerSize


\* The addresses of Phase B messages that take a port index, and the number
\* of ports the index of each is tested against.
IndexedAddrs == {"/node/set", "/synth/map/input", "/synth/map/output"}

Ports(addr) ==
    IF addr = "/node/set" THEN NumControlInputs
    ELSE IF addr = "/synth/map/input" THEN NumAudioInputs
    ELSE NumAudioOutputs

\* Phase B call i addresses a group where a synth is required.
WrongType(i) ==
    /\ mlog[i].ph = "B" /\ mlog[i].addr \in IndexedAddrs
    /\ mlog[i].was = "group"

\* Phase B call i addresses a synth with an index outside its ports.
BadIndex(i) ==
    /\ mlog[i].ph = "B" /\ mlog[i].addr \in IndexedAddrs
    /\ mlog[i].was = "synth"
    /\ (mlog[i].x < 0 \/ mlog[i].x >= Ports(mlog[i].addr))

ValidationErrors ==
    {"NodeTypeError", "Control input index out of range",
     "Synth input index out of range", "Synth output index out of range"}

\* C32: a Phase B message addressed to a group where a synth is required, or
\* carrying an index that is negative or not below the number of ports,
\* leaves every control value and bus mapping as it was and is answered by
\* an /error reply: each such failure has its error queued for the worker or
\* already delivered as an /error reply.
C32_InvalidLeavesNodesAndReplies ==
    /\ \A i \in MLog :
          /\ WrongType(i) => (mlog[i].err = "NodeTypeError" /\ mlog[i].kept)
          /\ BadIndex(i) =>
                (/\ mlog[i].err \in ValidationErrors \ {"NodeTypeError"}
                 /\ mlog[i].kept)
    /\ Cardinality({i \in MLog : mlog[i].ph = "B" /\ mlog[i].err \in ValidationErrors})
          = Cardinality({i \in DOMAIN replies :
                            /\ replies[i].addr = "/error"
                            /\ replies[i].message \in ValidationErrors})
            + Cardinality({i \in DOMAIN toWorker :
                            /\ toWorker[i].f = "response_error"
                            /\ toWorker[i].msg \in ValidationErrors})

\* C32 witness: every indexed address has failed in Phase B on the root
\* group, on a negative index and on an index equal to the number of ports;
\* node 1 holds the control value and the mappings that the valid messages
\* of the second bundle gave it, and the nine /error replies have been
\* delivered.
C32_Witness ==
    /\ \A a \in IndexedAddrs :
          /\ \E i \in MLog : WrongType(i) /\ mlog[i].addr = a
          /\ \E i \in MLog : BadIndex(i) /\ mlog[i].addr = a
          /\ \E i \in MLog : ~WrongType(i) /\ ~BadIndex(i) /\ mlog[i].ph = "B"
                             /\ mlog[i].addr = a /\ mlog[i].err = ""
    /\ \E i, j \in MLog : BadIndex(i) /\ BadIndex(j) /\ mlog[i].x < 0
                          /\ mlog[j].x = Ports(mlog[j].addr)
    /\ nodes[1].type = "synth"
    /\ nodes[1].ctl = 1 /\ nodes[1].inp = 1 /\ nodes[1].out = 3
    /\ Cardinality({i \in DOMAIN replies :
                       /\ replies[i].addr = "/error"
                       /\ replies[i].message \in ValidationErrors}) = 9
    /\ toWorker = <<>>
    /\ pc = "idle"

\* The cumulative number of frames has reached seconds * sampleRate by the
\* end of call k of DoneAfter::process.
Reached(k) == FramesScale * doneAfter.frames[k] >= doneAfter.target

\* synthDone was called in call k of DoneAfter::process.
SignalledIn(k) == \E i \in DOMAIN doneAfter.dones : doneAfter.dones[i] = k

\* C33: a DoneAfter synth calls synthDone in the first call of process at
\* which the cumulative number of frames reaches seconds * sampleRate, in no
\* other call, and not twice in that one.
C33_DoneExactlyOnce ==
    doneAfter.made =>
        /\ \A k \in DOMAIN doneAfter.frames :
              SignalledIn(k) <=> (Reached(k) /\ \A j \in 1 .. k - 1 : ~Reached(j))
        /\ Len(doneAfter.dones) <= 1
        /\ (\E k \in DOMAIN doneAfter.frames : Reached(k))
              => Len(doneAfter.dones) = 1

\* C33 witness: seconds * sampleRate is not a whole number of frames, it was
\* reached in the second of four calls, and synthDone was called in that
\* call alone.
C33_Witness ==
    /\ doneAfter.made
    /\ doneAfter.target % FramesScale = 1
    /\ Len(doneAfter.frames) = 4
    /\ doneAfter.dones = <<2>>
    /\ doneAfter.frames[4] > doneAfter.frames[2]

\* C33 witness for the boundary: the cumulative number of frames equals
\* seconds * sampleRate at the call in which synthDone is called.
C33_WitnessExact ==
    /\ doneAfter.made /\ doneAfter.target > 0
    /\ doneAfter.dones = <<3>>
    /\ FramesScale * doneAfter.frames[3] = doneAfter.target
    /\ Len(doneAfter.frames) = 4

====
